---- MODULE Spec2Model ----
(***************************************************************************)
(* Model of the DyslexiQuest client: the useGameState session hook          *)
(* (start / sendInput / backtrackToTurn / endGame / newGame), the local     *)
(* persistence helpers it calls, the API error helpers and the part of the  *)
(* VocabularyManager the hook drives.                                       *)
(*                                                                          *)
(* Texts are sequences of tokens (a token is a string of one or more        *)
(* characters), so trimming and substring matching are computed.  An        *)
(* absent value (null / undefined) is the record Null; every nullable       *)
(* value is a record.  Date.now() values are the single token Now.          *)
(***************************************************************************)
EXTENDS Integers, Sequences, FiniteSets, TLC

VARIABLES gameState, isLoading, error, storage, inflight, progress, lastOp,
          vocabularyItem, call, handed, gameWindow

vars == <<gameState, isLoading, error, storage, inflight, progress, lastOp,
          vocabularyItem, call, handed, gameWindow>>

\* what the session hook does not touch: the item under the vocabulary key,
\* the last call of a utility function made outside the hook and its
\* completion, the object getProgress() handed out, and the local state of
\* the GameWindow component
utilVars == <<vocabularyItem, call, handed, gameWindow>>

\* the hook's own state, apart from the storage item and the progress
hookVars == <<gameState, isLoading, error, inflight, lastOp>>

Null == [null |-> TRUE]

Some(v) == [value |-> v]

Now == "now"

\* ---------------------------------------------------------------- constants
MAX_BACKTRACK_COUNT == 2

MAX_TURNS == 15

DefaultMaxRetries == 3

\* ------------------------------------------------------------------- bounds
\* a caller pushes to an array it was handed only while the array is shorter
MaxPushedLen == 1

\* endGame is not offered once total_games_played reached this many
MaxGamesPlayed == 1

\* the largest maxRetries a direct withRetry call is given
MaxRetriesArg == 3

\* the longest message (in tokens) of a value handed to handleAPIError
MaxMessageLen == 4

MaxTextLen == 3

\* the user interface and the overlapping callers invoke nothing more while
\* this many requests are in flight, and offer sendInput only below this turn
MaxInflight == 2

MaxOverlapTurn == 3

\* the number of turns whose text the GameWindow is given
MaxWindowTurns == 2

\* ------------------------------------------------------------ input domains
Genres == {"forest", "space", "dungeon", "mystery"}

\* raw texts a caller may pass to sendInput
Inputs == { <<>>, <<" ", " ">>, <<" ", "g", "o", " ">> }

Whitespace == {" ", "\t", "\n"}

\* values an API call may throw: Error objects with a message, or a non-Error
ErrFetch == [isError |-> TRUE, message |-> <<"Failed to fetch">>]

ErrHttp500 == [isError |-> TRUE, message |-> <<"HTTP ", "5", "0", "0", ": ">>]

ErrHttp404 == [isError |-> TRUE, message |-> <<"HTTP ", "4", "0", "4", ": ">>]

ThrownErrors == {ErrFetch, ErrHttp500, ErrHttp404}

\* ------------------------------------------------------------ pure helpers
\* String.prototype.trim
RECURSIVE TrimLeft(_)
TrimLeft(s) ==
  IF s = <<>> THEN <<>>
  ELSE IF Head(s) \in Whitespace THEN TrimLeft(Tail(s)) ELSE s

RECURSIVE TrimRight(_)
TrimRight(s) ==
  IF s = <<>> THEN <<>>
  ELSE IF s[Len(s)] \in Whitespace THEN TrimRight(SubSeq(s, 1, Len(s) - 1)) ELSE s

Trim(s) == TrimRight(TrimLeft(s))

\* Array.prototype.includes
Includes(seq, x) == \E i \in 1..Len(seq) : seq[i] = x

\* String.prototype.includes on token sequences
IncludesText(text, pat) ==
  \E i \in 1..(Len(text) - Len(pat) + 1) : SubSeq(text, i, i + Len(pat) - 1) = pat

\* Array.prototype.filter with the predicate "not in `seen`"
RECURSIVE FilterNotIn(_, _)
FilterNotIn(words, seen) ==
  IF words = <<>> THEN <<>>
  ELSE IF Includes(seen, Head(words)) THEN FilterNotIn(Tail(words), seen)
       ELSE <<Head(words)>> \o FilterNotIn(Tail(words), seen)

\* String.prototype.toLowerCase on the words that occur
ToLowerCase(w) ==
  CASE w \in {"Magic", "MAGIC"} -> "magic"
    [] w \in {"Quest", "QUEST"} -> "quest"
    [] w \in {"Riddle", "RIDDLE"} -> "riddle"
    [] w \in {"Adventure", "ADVENTURE"} -> "adventure"
    [] w \in {"Discover", "DISCOVER"} -> "discover"
    [] w \in {"Treasure", "TREASURE"} -> "treasure"
    [] OTHER -> w

\* ------------------------------------------------------------- API helpers
MsgConnect == <<"Unable to connect to the game server. Please check your internet connection and try again.">>

MsgTooMany == <<"Too many requests. Please wait a moment and try again.">>

MsgServer == <<"The game server is experiencing issues. Please try again in a few moments.">>

MsgUnexpected == <<"An unexpected error occurred. Please try again.">>

\* mutant: every unmatched value gets the generic text
handleAPIError_GenericFallback(err) ==
  IF err.isError
  THEN IF IncludesText(err.message, <<"NetworkError">>) \/ IncludesText(err.message, <<"Failed to fetch">>)
       THEN MsgConnect
       ELSE IF IncludesText(err.message, <<"HTTP ", "4", "2", "9">>)
            THEN MsgTooMany
            ELSE IF IncludesText(err.message, <<"HTTP ", "5">>)
                 THEN MsgServer
                 ELSE MsgUnexpected
  ELSE MsgUnexpected

\* handleAPIError: thrown value -> user-facing text
handleAPIError(err) ==
  IF err.isError
  THEN IF IncludesText(err.message, <<"NetworkError">>) \/ IncludesText(err.message, <<"Failed to fetch">>)
       THEN MsgConnect
       ELSE IF IncludesText(err.message, <<"HTTP ", "4", "2", "9">>)
            THEN MsgTooMany
            ELSE IF IncludesText(err.message, <<"HTTP ", "5">>)
                 THEN MsgServer
                 ELSE err.message
  ELSE MsgUnexpected

Ok(v) == [ok |-> TRUE, value |-> v]

Fail(e) == [ok |-> FALSE, error |-> e]

\* Math.pow(2, n)
RECURSIVE Pow2(_)
Pow2(n) == IF n <= 0 THEN 1 ELSE 2 * Pow2(n - 1)

\* what a withRetry call did, in order: calls of apiCall and setTimeout sleeps
Attempt(i) == [attempt |-> i]

Wait(ms) == [wait |-> ms]

\* mutant: the sleep also follows the last failed attempt, and the loop then
\* runs out
RECURSIVE RetryLoop_WaitsAfterLast(_, _, _, _, _)
RetryLoop_WaitsAfterLast(outcomes, maxRetries, delay, i, trace) ==
  IF ~(i < maxRetries)
  THEN [ok |-> FALSE, error |-> [isError |-> TRUE, message |-> <<"Max retries exceeded">>],
        trace |-> trace]
  ELSE IF outcomes[i + 1].ok
       THEN [ok |-> TRUE, value |-> outcomes[i + 1].value, trace |-> Append(trace, Attempt(i))]
       ELSE RetryLoop_WaitsAfterLast(outcomes, maxRetries, delay, i + 1,
                                     trace \o <<Attempt(i), Wait(delay * Pow2(i))>>)

\* withRetry's for loop from index i on; outcomes[i + 1] is what the i-th call
\* of apiCall does, trace is what the loop did so far
RECURSIVE RetryLoop(_, _, _, _, _)
RetryLoop(outcomes, maxRetries, delay, i, trace) ==
  IF ~(i < maxRetries)
  THEN [ok |-> FALSE, error |-> [isError |-> TRUE, message |-> <<"Max retries exceeded">>],
        trace |-> trace]
  ELSE IF outcomes[i + 1].ok
       THEN [ok |-> TRUE, value |-> outcomes[i + 1].value, trace |-> Append(trace, Attempt(i))]
       ELSE IF i = maxRetries - 1
            THEN [ok |-> FALSE, error |-> outcomes[i + 1].error, trace |-> Append(trace, Attempt(i))]
            ELSE RetryLoop(outcomes, maxRetries, delay, i + 1,
                           trace \o <<Attempt(i), Wait(delay * Pow2(i))>>)

withRetry(outcomes, maxRetries, delay) == RetryLoop(outcomes, maxRetries, delay, 0, <<>>)

\* ------------------------------------------------------------ localStorage
\* JSON values, tagged with what typeof / Array.isArray see
JNull == [t |-> "null"]

JBool(b) == [t |-> "boolean", b |-> b]

JNum(n) == [t |-> "number", n |-> n]

JStr(s) == [t |-> "string", s |-> s]

JArr(a) == [t |-> "array", a |-> a]

JObj(o) == [t |-> "object", o |-> o]

\* what localStorage holds under one key: no item (Null), the empty string,
\* a text that is not JSON, the JSON text of a value, or a storage area whose
\* access throws
EmptyText == [text |-> "empty"]

MalformedText == [text |-> "malformed"]

JsonText(j) == [json |-> j]

Unavailable == [denied |-> TRUE]

SecurityError == [isError |-> TRUE, message |-> <<"SecurityError">>]

SyntaxError == [isError |-> TRUE, message |-> <<"SyntaxError">>]

GameStateFields ==
  {"session_id", "turn", "genre", "history", "vocabulary_learned", "game_over",
   "backtrack_count", "current_choices"}

\* JSON.stringify of an object: members that are undefined are left out
Stringify(obj) ==
  LET MemberJson(f, v) ==
        CASE f \in {"session_id", "genre"} -> JStr(v)
          [] f \in {"turn", "backtrack_count", "timestamp"} -> JNum(v)
          [] f = "game_over" -> JBool(v)
          [] f \in {"history", "vocabulary_learned"} -> JArr(v)
          [] f = "current_choices" -> JArr(v.value)
  IN
  JsonText(JObj([f \in {g \in DOMAIN obj : g # "current_choices" \/ obj[g] # Null} |->
                   MemberJson(f, obj[f])]))

\* localStorage.getItem
getItem(item) == IF item = Unavailable THEN Fail(SecurityError) ELSE Ok(item)

\* localStorage.setItem / removeItem: a storage area that throws keeps nothing
setItem(item, text) == IF item = Unavailable THEN item ELSE text

\* JSON.parse
JSONParse(item) == IF "json" \in DOMAIN item THEN Ok(item.json) ELSE Fail(SyntaxError)

\* the value of a JSON value in a boolean context
Truthy(j) ==
  ~ \/ j.t = "null"
    \/ j.t = "boolean" /\ ~j.b
    \/ j.t = "number" /\ j.n = 0
    \/ j.t = "string" /\ j.s = ""

\* typeof j[f]
TypeOfMember(j, f) ==
  IF j.t = "object" /\ f \in DOMAIN j.o
  THEN IF j.o[f].t \in {"null", "array"} THEN "object" ELSE j.o[f].t
  ELSE "undefined"

\* Array.isArray(j[f])
IsArrayMember(j, f) == j.t = "object" /\ f \in DOMAIN j.o /\ j.o[f].t = "array"

\* a parsed object read as a GameState: a missing member and null read as Null
AsGameState(j) ==
  LET Member(o, f) ==
        IF f \notin DOMAIN o THEN Null
        ELSE CASE o[f].t = "null" -> Null
               [] o[f].t = "boolean" -> o[f].b
               [] o[f].t = "number" -> o[f].n
               [] o[f].t = "string" -> o[f].s
               [] o[f].t = "array" -> IF f = "current_choices" THEN Some(o[f].a) ELSE o[f].a
               [] o[f].t = "object" -> o[f].o
  IN [f \in DOMAIN j.o \cup GameStateFields |-> Member(j.o, f)]

saveGameState(gs, item) ==
  setItem(item, Stringify([f \in DOMAIN gs \cup {"timestamp"} |->
                             IF f = "timestamp" THEN Now ELSE gs[f]]))

\* the try block of loadGameState: what it returns or throws
loadGameStateTry(item) ==
  LET serializedState == getItem(item) IN
  IF ~serializedState.ok THEN serializedState
  ELSE IF item = Null \/ item = EmptyText THEN Ok(Null)
  ELSE LET parsed == JSONParse(item) IN
       IF ~parsed.ok THEN parsed
       ELSE LET parsedState == parsed.value IN
            IF /\ Truthy(parsedState)
               /\ TypeOfMember(parsedState, "session_id") = "string"
               /\ TypeOfMember(parsedState, "turn") = "number"
               /\ IsArrayMember(parsedState, "history")
            THEN Ok(AsGameState(parsedState))
            ELSE Ok(Null)

\* mutant: no catch block, what the try block throws reaches the caller
loadGameState_NoCatch(item) == loadGameStateTry(item)

\* loadGameState: how the call completes, Ok(value returned) or Fail(thrown)
loadGameState(item) ==
  LET attempt == loadGameStateTry(item) IN
  IF attempt.ok THEN attempt ELSE Ok(Null)

\* the try block of loadVocabularyProgress: what it returns or throws
loadVocabularyProgressTry(item) ==
  LET serializedProgress == getItem(item) IN
  IF ~serializedProgress.ok THEN serializedProgress
  ELSE IF item = Null \/ item = EmptyText THEN Ok(Null)
  ELSE LET parsed == JSONParse(item) IN
       IF ~parsed.ok THEN parsed
       ELSE LET progressJson == parsed.value IN
            IF /\ Truthy(progressJson)
               /\ IsArrayMember(progressJson, "words_learned")
               /\ IsArrayMember(progressJson, "definitions_viewed")
               /\ TypeOfMember(progressJson, "total_games_played") = "number"
            THEN Ok(progressJson)
            ELSE Ok(Null)

\* loadVocabularyProgress: how the call completes; the value returned is the
\* parsed object itself
loadVocabularyProgress(item) ==
  LET attempt == loadVocabularyProgressTry(item) IN
  IF attempt.ok THEN attempt ELSE Ok(Null)

\* mutant: the item is not removed
clearGameState_KeepsItem(item) == item

clearGameState(item) == setItem(item, Null)

\* ------------------------------------------------------- VocabularyManager
DefaultProgress ==
  [words_learned |-> <<>>, definitions_viewed |-> <<>>, words_mastered |-> <<>>,
   total_games_played |-> 0, last_played |-> Now, current_streak |-> 0, best_streak |-> 0]

updateStreak(p) ==
  LET cur == p.current_streak + 1 IN
  [p EXCEPT !.current_streak = cur,
            !.best_streak = IF cur > p.best_streak THEN cur ELSE p.best_streak]

\* Object.keys(vocabularyDatabase), in the order of the object literal
DictionaryKeys ==
  <<"adventure", "mysterious", "courage", "ancient", "discover", "enchanted", "riddle",
    "treasure", "wisdom", "labyrinth">>

getProgressStats(p) ==
  LET totalWords == Len(DictionaryKeys)
      \* Math.round(numerator / denominator) for non-negative arguments
      Round(numerator, denominator) == (2 * numerator + denominator) \div (2 * denominator)
  IN
  [totalWordsLearned |-> Len(p.words_learned),
   totalDefinitionsViewed |-> Len(p.definitions_viewed),
   wordsMastered |-> Len(p.words_mastered),
   currentStreak |-> p.current_streak,
   bestStreak |-> p.best_streak,
   completionPercentage |-> Round(Len(p.words_learned) * 100, totalWords)]

\* the members of VocabularyProgress that hold arrays
ArrayFields == {"words_learned", "definitions_viewed", "words_mastered"}

\* a member holding the very array object that this.progress[f] holds
Ref(f) == [ref |-> f]

\* a member holding an array object of its own
Own(a) == [own |-> a]

\* getProgress: { ...this.progress } copies the member values, and the value
\* of an array member is the array object itself
getProgress(p) == [f \in DOMAIN p |-> IF f \in ArrayFields THEN Ref(f) ELSE p[f]]

\* mutant: the word is looked up as given, not in lowercase
addLearnedWord_CaseSensitive(p, word) ==
  IF ~Includes(p.words_learned, word)
  THEN updateStreak([p EXCEPT !.words_learned = Append(p.words_learned, ToLowerCase(word))])
  ELSE p

addLearnedWord(p, word) ==
  IF ~Includes(p.words_learned, ToLowerCase(word))
  THEN updateStreak([p EXCEPT !.words_learned = Append(p.words_learned, ToLowerCase(word))])
  ELSE p

\* response.vocabulary_words.forEach(word => vocabularyManager.addLearnedWord(word))
RECURSIVE addLearnedWords(_, _)
addLearnedWords(p, words) ==
  IF words = <<>> THEN p ELSE addLearnedWords(addLearnedWord(p, Head(words)), Tail(words))

resetCurrentStreak(p) == [p EXCEPT !.current_streak = 0]

\* endGame's updateProgress({total_games_played: getProgress().total_games_played + 1, ...})
updateProgressGamesPlayed(p) ==
  [p EXCEPT !.total_games_played = p.total_games_played + 1, !.last_played = Now]


\* ------------------------------------------------ highlightVocabularyWords
\* word.length
StrLen(word) ==
  CASE word = "mysterious" -> 10
    [] word \in {"adventure", "enchanted", "labyrinth"} -> 9
    [] word \in {"discover", "treasure"} -> 8
    [] word \in {"courage", "ancient"} -> 7
    [] word \in {"riddle", "wisdom"} -> 6

\* vocabularyDatabase[word]: the texts are cut into tokens around the
\* dictionary words they contain
vocabularyDatabase(word) ==
  CASE word = "adventure" ->
         [word |-> "adventure", definition |-> <<"An exciting or dangerous experience or journey">>,
          example |-> <<"Going on an ", "adventure", " through the forest was thrilling!">>]
    [] word = "mysterious" ->
         [word |-> "mysterious", definition |-> <<"Strange, unknown, or difficult to understand">>,
          example |-> <<"The ", "mysterious", " door had no handle or keyhole.">>]
    [] word = "courage" ->
         [word |-> "courage", definition |-> <<"The ability to do something brave or difficult">>,
          example |-> <<"It took ", "courage", " to enter the dark cave.">>]
    [] word = "ancient" ->
         [word |-> "ancient", definition |-> <<"Very old, from long ago in history">>,
          example |-> <<"The ", "ancient", " castle was built hundreds of years ago.">>]
    [] word = "discover" ->
         [word |-> "discover", definition |-> <<"To find something for the first time">>,
          example |-> <<"We might ", "discover", " ", "treasure", " in the hidden room.">>]
    [] word = "enchanted" ->
         [word |-> "enchanted", definition |-> <<"Having magical powers or under a magic spell">>,
          example |-> <<"The ", "enchanted", " sword glowed with blue light.">>]
    [] word = "riddle" ->
         [word |-> "riddle", definition |-> <<"A puzzle or question that needs clever thinking to solve">>,
          example |-> <<"The sphinx asked a difficult ", "riddle", ".">>]
    [] word = "treasure" ->
         [word |-> "treasure", definition |-> <<"Valuable things like gold, jewels, or precious objects">>,
          example |-> <<"The pirates buried their ", "treasure", " on the island.">>]
    [] word = "wisdom" ->
         [word |-> "wisdom", definition |-> <<"Knowledge and good judgment gained from experience">>,
          example |-> <<"The old wizard shared his ", "wisdom", " with young adventurers.">>]
    [] word = "labyrinth" ->
         [word |-> "labyrinth", definition |-> <<"A complicated network of paths; a maze">>,
          example |-> <<"Getting lost in the ", "labyrinth", " was scary but exciting.">>]

\* `__VOCAB_${vocabWord.toUpperCase()}__`
Placeholder(word) ==
  CASE word = "adventure" -> "__VOCAB_ADVENTURE__"
    [] word = "mysterious" -> "__VOCAB_MYSTERIOUS__"
    [] word = "courage" -> "__VOCAB_COURAGE__"
    [] word = "ancient" -> "__VOCAB_ANCIENT__"
    [] word = "discover" -> "__VOCAB_DISCOVER__"
    [] word = "enchanted" -> "__VOCAB_ENCHANTED__"
    [] word = "riddle" -> "__VOCAB_RIDDLE__"
    [] word = "treasure" -> "__VOCAB_TREASURE__"
    [] word = "wisdom" -> "__VOCAB_WISDOM__"
    [] word = "labyrinth" -> "__VOCAB_LABYRINTH__"

\* tokens made of word characters only ([A-Za-z0-9_]): next to one of them
\* there is no \b
WordTokens ==
  {"Adventure", "ADVENTURE", "Discover", "Treasure", "Riddle", "s", "cave", "magic", "Magic"}
    \cup { DictionaryKeys[k] : k \in 1..Len(DictionaryKeys) }
    \cup { Placeholder(DictionaryKeys[k]) : k \in 1..Len(DictionaryKeys) }

\* new RegExp(`\\b${word}\\b`, 'gi') matches the token at position i
MatchesAt(text, i, word) ==
  /\ ToLowerCase(text[i]) = word
  /\ i = 1 \/ text[i - 1] \notin WordTokens
  /\ i = Len(text) \/ text[i + 1] \notin WordTokens

\* the pieces of the template literal of createSafeTooltip: its tags and its
\* line breaks with their indentation
Template ==
  [spanWordOpen |-> "<span class=\"vocabulary-word\" data-word=\"",
   attributeClose |-> "\">",
   spanTooltipOpen |-> "<span class=\"vocabulary-tooltip\">",
   spanClose |-> "</span>",
   nl4 |-> "\n    ",
   nl6 |-> "\n      ",
   nl8 |-> "\n        "]

\* the forEach over Object.keys(vocabularyDatabase) from key k on, with
\* text.replace(safeRegex, `__VOCAB_${vocabWord.toUpperCase()}__`)
RECURSIVE SafeText(_, _)
SafeText(text, k) ==
  IF k > Len(DictionaryKeys) THEN text
  ELSE SafeText([i \in 1..Len(text) |->
                   IF MatchesAt(text, i, DictionaryKeys[k]) THEN Placeholder(DictionaryKeys[k])
                   ELSE text[i]],
                k + 1)

\* mutant: the dictionary's spelling of the word is shown instead of the match
createSafeTooltip_ShowsDictionaryWord(word) ==
  LET wordInfo == vocabularyDatabase(ToLowerCase(word))
      safeDefinition == SafeText(wordInfo.definition, 1)
      safeExample == SafeText(wordInfo.example, 1)
  IN <<Template.spanWordOpen, word, Template.attributeClose, Template.nl6, wordInfo.word,
       Template.nl6, Template.spanTooltipOpen, Template.nl8,
       "<strong>", wordInfo.word, "</strong>", "<br>", Template.nl8>>
       \o safeDefinition \o <<Template.nl8>>
       \o (IF safeExample # <<>> THEN <<"<br>", "<em>", "Example: ">> \o safeExample \o <<"</em>">>
           ELSE <<>>)
       \o <<Template.nl6, Template.spanClose, Template.nl4, Template.spanClose>>

\* createSafeTooltip for a matched word (a match always has a dictionary entry)
createSafeTooltip(word) ==
  LET wordInfo == vocabularyDatabase(ToLowerCase(word))
      safeDefinition == SafeText(wordInfo.definition, 1)
      safeExample == SafeText(wordInfo.example, 1)
  IN <<Template.spanWordOpen, word, Template.attributeClose, Template.nl6, word,
       Template.nl6, Template.spanTooltipOpen, Template.nl8,
       "<strong>", wordInfo.word, "</strong>", "<br>", Template.nl8>>
       \o safeDefinition \o <<Template.nl8>>
       \o (IF safeExample # <<>> THEN <<"<br>", "<em>", "Example: ">> \o safeExample \o <<"</em>">>
           ELSE <<>>)
       \o <<Template.nl6, Template.spanClose, Template.nl4, Template.spanClose>>

\* sortedWords: Object.keys(...).sort((a, b) => b.length - a.length), a stable
\* sort; Insert puts a word behind the words that are at least as long
sortedWords ==
  LET RECURSIVE Insert(_, _)
      Insert(sorted, word) ==
        IF sorted = <<>> THEN <<word>>
        ELSE IF StrLen(Head(sorted)) >= StrLen(word)
             THEN <<Head(sorted)>> \o Insert(Tail(sorted), word)
             ELSE <<word>> \o sorted
      RECURSIVE Sort(_)
      Sort(keys) ==
        IF keys = <<>> THEN <<>>
        ELSE Insert(Sort(SubSeq(keys, 1, Len(keys) - 1)), keys[Len(keys)])
  IN Sort(DictionaryKeys)

\* highlightedText.replace(regex, match => createSafeTooltip(match)) on the
\* tokens lo..hi, the halves one after the other; the matches are looked for in
\* the text as it was before the call
RECURSIVE ReplaceByTooltip(_, _, _, _)
ReplaceByTooltip(text, lo, hi, word) ==
  IF lo > hi THEN <<>>
  ELSE IF lo = hi
       THEN IF MatchesAt(text, lo, word) THEN createSafeTooltip(text[lo]) ELSE <<text[lo]>>
       ELSE LET mid == (lo + hi) \div 2
            IN ReplaceByTooltip(text, lo, mid, word) \o ReplaceByTooltip(text, mid + 1, hi, word)

\* sortedWords.forEach from word k on: the running text and the manager's
\* progress, to which createSafeTooltip adds every match
RECURSIVE HighlightFrom(_, _, _)
HighlightFrom(text, p, k) ==
  IF k > Len(sortedWords) THEN [text |-> text, progress |-> p]
  ELSE LET matched == SelectSeq([i \in 1..Len(text) |->
                                   IF MatchesAt(text, i, sortedWords[k]) THEN text[i] ELSE ""],
                                LAMBDA w : w # "")
       IN HighlightFrom(ReplaceByTooltip(text, 1, Len(text), sortedWords[k]),
                         addLearnedWords(p, matched), k + 1)

\* the restoring forEach over Object.keys(vocabularyDatabase) from key k on,
\* with highlightedText.replace(placeholderRegex, word)
RECURSIVE RestoreFrom(_, _)
RestoreFrom(text, k) ==
  IF k > Len(DictionaryKeys) THEN text
  ELSE RestoreFrom([i \in 1..Len(text) |->
                      IF text[i] = Placeholder(DictionaryKeys[k]) THEN DictionaryKeys[k]
                      ELSE text[i]],
                   k + 1)

\* highlightVocabularyWords(text, vocabularyManager): the markup returned and
\* the manager's progress afterwards
highlightVocabularyWords(text, p) ==
  LET highlighted == HighlightFrom(text, p, 1)
  IN [text |-> RestoreFrom(highlighted.text, 1), progress |-> highlighted.progress]

\* ------------------------------------------------------------ the backend
\* The story service is not part of the client sources.  It is modelled from
\* the interface description: a scripted story per genre, the reply to
\* nextTurn carries turn = request turn + 1, a backtrack reply carries the
\* session as it was at the target turn.
SessionIds == {"s1"}

StoryIntro(genre) == <<"intro:", genre>>

StoryText(turn) == <<"story">>

VocabAt(turn) == IF turn = 2 THEN <<"Magic", "magic", "magic">> ELSE <<>>

ChoicesAt(turn) == IF turn % 2 = 1 THEN Some(<<"1. Go">>) ELSE Null

\* backtrack_count values a backtrack reply may carry
ServerBacktrackCounts == {0, 3}

StartResponses(genre) ==
  { [session_id |-> sid, story_intro |-> StoryIntro(genre), turn |-> 1, choices |-> ChoicesAt(1)] :
      sid \in SessionIds }

NextResponses(request) ==
  { [response |-> StoryText(request.turn + 1), turn |-> request.turn + 1,
     vocabulary_words |-> VocabAt(request.turn + 1), game_over |-> over,
     choices |-> ChoicesAt(request.turn + 1)] : over \in BOOLEAN }

RECURSIVE MergedVocabulary(_)
MergedVocabulary(history) ==
  IF history = <<>> THEN <<>>
  ELSE LET before == MergedVocabulary(SubSeq(history, 1, Len(history) - 1)) IN
       before \o FilterNotIn(history[Len(history)].vocabulary_words, before)

\* session is the state the request was made from (the server's copy of it)
BacktrackResponses(request, session) ==
  LET kept == SelectSeq(session.history, LAMBDA h : h.turn <= request.target_turn) IN
  { [restored_state |->
       [session_id |-> request.session_id, turn |-> request.target_turn,
        genre |-> session.genre, history |-> kept,
        vocabulary_learned |-> MergedVocabulary(kept), game_over |-> over,
        backtrack_count |-> count, current_choices |-> ChoicesAt(request.target_turn)],
     message |-> <<"restored">>] : over \in BOOLEAN, count \in ServerBacktrackCounts }

EndResponses == { [message |-> <<"ended">>] }

\* ------------------------------------------------------------ useGameState
DefaultChoices ==
  <<"1. Continue exploring", "2. Look around carefully", "3. Move forward slowly", "4. Stay where you are">>

\* response.choices || [defaults]
ChoicesOrDefault(choices) == IF choices = Null THEN Some(DefaultChoices) ELSE choices

MsgNoSession == <<"No active game session.">>

MsgMaxTurns == <<"Game has reached maximum turns.">>

MsgInvalidInput == <<"Please enter a valid response.">>

MsgNoBacktracks == <<"You have used all available backtracks for this game.">>

MsgInvalidTurn == <<"Invalid turn number for backtracking.">>

\* mutant: the intro text stored as the player's input
NewGameState_SwappedTexts(genre, response) ==
  [session_id |-> response.session_id, turn |-> response.turn, genre |-> genre,
   history |-> << [turn |-> response.turn, user_input |-> response.story_intro,
                   ai_response |-> <<>>, vocabulary_words |-> <<>>,
                   timestamp |-> Now] >>,
   vocabulary_learned |-> <<>>, game_over |-> FALSE, backtrack_count |-> 0,
   current_choices |-> ChoicesOrDefault(response.choices)]

\* startGame: newGameState
NewGameState(genre, response) ==
  [session_id |-> response.session_id, turn |-> response.turn, genre |-> genre,
   history |-> << [turn |-> response.turn, user_input |-> <<>>,
                   ai_response |-> response.story_intro, vocabulary_words |-> <<>>,
                   timestamp |-> Now] >>,
   vocabulary_learned |-> <<>>, game_over |-> FALSE, backtrack_count |-> 0,
   current_choices |-> ChoicesOrDefault(response.choices)]

\* mutant: the emptiness test applied to the untrimmed input
SendInputRejection_Untrimmed(gs, input) ==
  IF gs = Null THEN Some(MsgNoSession)
  ELSE IF gs.game_over THEN Some(MsgNoSession)
  ELSE IF gs.turn >= MAX_TURNS THEN Some(MsgMaxTurns)
  ELSE IF input = <<>> THEN Some(MsgInvalidInput)
  ELSE Null

\* sendInput: the text of the error its guards set, Null when they all pass
SendInputRejection(gs, input) ==
  IF gs = Null THEN Some(MsgNoSession)
  ELSE IF gs.game_over THEN Some(MsgNoSession)
  ELSE IF gs.turn >= MAX_TURNS THEN Some(MsgMaxTurns)
  ELSE IF Trim(input) = <<>> THEN Some(MsgInvalidInput)
  ELSE Null

\* sendInput: newTurn
NewTurn(response, trimmedInput) ==
  [turn |-> response.turn, user_input |-> trimmedInput, ai_response |-> response.response,
   vocabulary_words |-> response.vocabulary_words, timestamp |-> Now]

\* mutant: turn not taken from the response
UpdatedGameState_StaleTurn(gs, response, trimmedInput) ==
  [gs EXCEPT !.history = Append(gs.history, NewTurn(response, trimmedInput)),
             !.vocabulary_learned =
                gs.vocabulary_learned \o
                FilterNotIn(response.vocabulary_words, gs.vocabulary_learned),
             !.game_over = (response.game_over \/ response.turn >= MAX_TURNS),
             !.current_choices = ChoicesOrDefault(response.choices)]

\* mutant: game_over taken from the backend flag alone
UpdatedGameState_ServerFlagOnly(gs, response, trimmedInput) ==
  [gs EXCEPT !.turn = response.turn,
             !.history = Append(gs.history, NewTurn(response, trimmedInput)),
             !.vocabulary_learned =
                gs.vocabulary_learned \o
                FilterNotIn(response.vocabulary_words, gs.vocabulary_learned),
             !.game_over = response.game_over,
             !.current_choices = ChoicesOrDefault(response.choices)]

\* mutant: the turn limit compared with > instead of >=
UpdatedGameState_OffByOne(gs, response, trimmedInput) ==
  [gs EXCEPT !.turn = response.turn,
             !.history = Append(gs.history, NewTurn(response, trimmedInput)),
             !.vocabulary_learned =
                gs.vocabulary_learned \o
                FilterNotIn(response.vocabulary_words, gs.vocabulary_learned),
             !.game_over = (response.game_over \/ response.turn > MAX_TURNS),
             !.current_choices = ChoicesOrDefault(response.choices)]

\* sendInput: updatedGameState, gs being the state the callback closed over
UpdatedGameState(gs, response, trimmedInput) ==
  [gs EXCEPT !.turn = response.turn,
             !.history = Append(gs.history, NewTurn(response, trimmedInput)),
             !.vocabulary_learned =
                gs.vocabulary_learned \o
                FilterNotIn(response.vocabulary_words, gs.vocabulary_learned),
             !.game_over = (response.game_over \/ response.turn >= MAX_TURNS),
             !.current_choices = ChoicesOrDefault(response.choices)]

\* mutant: the backtrack quota not checked
BacktrackRejection_NoQuota(gs, targetTurn) ==
  IF gs = Null THEN Some(MsgNoSession)
  ELSE IF targetTurn >= gs.turn \/ targetTurn < 1 THEN Some(MsgInvalidTurn)
  ELSE Null

\* mutant: the current turn accepted as a target
BacktrackRejection_OffByOne(gs, targetTurn) ==
  IF gs = Null THEN Some(MsgNoSession)
  ELSE IF gs.backtrack_count >= MAX_BACKTRACK_COUNT THEN Some(MsgNoBacktracks)
  ELSE IF targetTurn > gs.turn \/ targetTurn < 1 THEN Some(MsgInvalidTurn)
  ELSE Null

\* backtrackToTurn: the text of the error its guards set, Null when they pass
BacktrackRejection(gs, targetTurn) ==
  IF gs = Null THEN Some(MsgNoSession)
  ELSE IF gs.backtrack_count >= MAX_BACKTRACK_COUNT THEN Some(MsgNoBacktracks)
  ELSE IF targetTurn >= gs.turn \/ targetTurn < 1 THEN Some(MsgInvalidTurn)
  ELSE Null

\* mutant: the restored state taken verbatim, server backtrack_count included
BacktrackedGameState_TrustServer(gs, response) == response.restored_state

\* backtrackToTurn: updatedGameState
BacktrackedGameState(gs, response) ==
  [response.restored_state EXCEPT !.backtrack_count = gs.backtrack_count + 1]

\* mutant: the ended game also gets its backtracks back
FinalGameState_ResetsBacktracks(gs) == [gs EXCEPT !.game_over = TRUE, !.backtrack_count = 0]

\* endGame: finalGameState
FinalGameState(gs) == [gs EXCEPT !.game_over = TRUE]


\* ---------------------------------------------------------------- requests
DefaultDelay == 1000

\* a pending async call: its arguments and the gameState its callback closed over
Request(op, genre, input, target, gs) ==
  [op |-> op, genre |-> genre, input |-> input, target |-> target, gs |-> gs]

\* the last step taken: the operation, its arguments, what the API gave it (api),
\* the request it settled (req) and the state of the promise it returned; and
\* the number of backtracks applied since the last successful start
Op(op, phase, genre, input, target, api, req, promise) ==
  [op |-> op, phase |-> phase, genre |-> genre, input |-> input, target |-> target,
   api |-> api, req |-> req, promise |-> promise,
   backtracks |->
     IF phase = "settle" /\ api.ok
     THEN CASE op = "startGame" -> 0
            [] op = "backtrackToTurn" -> lastOp.backtracks + 1
            [] OTHER -> lastOp.backtracks
     ELSE lastOp.backtracks]

\* nothing done yet
NoOp ==
  [op |-> "mount", phase |-> "sync", genre |-> "", input |-> <<>>, target |-> 0,
   api |-> Null, req |-> Null, promise |-> "none", backtracks |-> 0]

RemoveAt(seq, i) == SubSeq(seq, 1, i - 1) \o SubSeq(seq, i + 1, Len(seq))

\* what each of the (at most maxRetries) calls of apiCall does: the first
\* `failures` calls throw e, the later ones return r
Outcomes(responses) ==
  { [j \in 1..DefaultMaxRetries |-> IF j <= failures THEN Fail(e) ELSE Ok(r)] :
      failures \in 0..DefaultMaxRetries, e \in ThrownErrors, r \in responses }

\* what the awaited withRetry call gave the handler
Settled(result) ==
  IF result.ok THEN Ok(result.value) ELSE Fail(result.error)

\* mutant: the effect saves only while nothing is stored
SaveEffect_FirstOnly(gs, item) ==
  IF gs # Null /\ item = Null THEN saveGameState(gs, item) ELSE item

\* the save effect: runs after a render in which gameState changed
SaveEffect(gs, item) == IF gs # Null THEN saveGameState(gs, item) ELSE item

\* mutant: no finally block, isLoading stays set
Failed_NoFinally(i, op, result) ==
  /\ UNCHANGED utilVars
  /\ error' = Some(handleAPIError(result.error))
  /\ inflight' = RemoveAt(inflight, i)
  /\ lastOp' = Op(op, "settle", "", <<>>, 0, Settled(result), inflight[i], "fulfilled")
  /\ UNCHANGED <<gameState, isLoading, storage, progress>>

\* the catch and finally blocks shared by the four async operations
Failed(i, op, result) ==
  /\ UNCHANGED utilVars
  /\ error' = Some(handleAPIError(result.error))
  /\ isLoading' = FALSE
  /\ inflight' = RemoveAt(inflight, i)
  /\ lastOp' = Op(op, "settle", "", <<>>, 0, Settled(result), inflight[i], "fulfilled")
  /\ UNCHANGED <<gameState, storage, progress>>

\* no utility call made yet
NoCall == [fn |-> "none"]

\* a call of a utility function: its name, its argument, how it completed
Call(fn, arg, completion) == [fn |-> fn, arg |-> arg, completion |-> completion]

\* the completion of a call that has not returned yet
Pending == [pending |-> TRUE]

\* ---------------------------------------------------------------- actions
Init ==
  /\ gameState = Null
  /\ isLoading = FALSE
  /\ error = Null
  /\ storage = Null
  /\ inflight = <<>>
  /\ progress = DefaultProgress
  /\ lastOp = NoOp
  /\ gameWindow = Null
  /\ vocabularyItem = Null
  /\ call = NoCall
  /\ handed = Null

\* page (re)load: fresh hook state, then the load effect and the save effect
Mount ==
  /\ UNCHANGED utilVars
  /\ gameState' = loadGameState(storage).value
  /\ storage' = SaveEffect(gameState', storage)
  /\ isLoading' = FALSE
  /\ error' = Null
  /\ inflight' = <<>>
  /\ progress' = DefaultProgress
  /\ lastOp' = Op("mount", "sync", "", <<>>, 0, Null, Null, "none")

ClearError ==
  /\ UNCHANGED utilVars
  /\ error' = Null
  /\ lastOp' = Op("clearError", "sync", "", <<>>, 0, Null, Null, "none")
  /\ UNCHANGED <<gameState, isLoading, storage, inflight, progress>>

StartGameCall(genre) ==
  /\ UNCHANGED utilVars
  /\ isLoading' = TRUE
  /\ error' = Null
  /\ inflight' = Append(inflight, Request("startGame", genre, <<>>, 0, Null))
  /\ lastOp' = Op("startGame", "call", genre, <<>>, 0, Null, Null, "pending")
  /\ UNCHANGED <<gameState, storage, progress>>

StartGameSettle(i, outcomes) ==
  /\ inflight[i].op = "startGame"
  /\ LET result == withRetry(outcomes, DefaultMaxRetries, DefaultDelay) IN
     IF result.ok
     THEN /\ UNCHANGED utilVars
          /\ gameState' = NewGameState(inflight[i].genre, result.value)
          /\ storage' = SaveEffect(gameState', storage)
          /\ isLoading' = FALSE
          /\ inflight' = RemoveAt(inflight, i)
          /\ lastOp' = Op("startGame", "settle", "", <<>>, 0, Settled(result), inflight[i], "fulfilled")
          /\ UNCHANGED <<error, progress>>
     ELSE Failed(i, "startGame", result)

SendInputCall(input) ==
  LET rejection == SendInputRejection(gameState, input) IN
  /\ UNCHANGED utilVars
  /\ lastOp' = Op("sendInput", "call", "", input, 0, Null, Null,
                  IF rejection # Null THEN "fulfilled" ELSE "pending")
  /\ IF rejection # Null
     THEN /\ error' = rejection
          /\ UNCHANGED <<gameState, isLoading, storage, inflight, progress>>
     ELSE /\ isLoading' = TRUE
          /\ error' = Null
          /\ inflight' = Append(inflight, Request("sendInput", "", Trim(input), 0, gameState))
          /\ UNCHANGED <<gameState, storage, progress>>

SendInputSettle(i, outcomes) ==
  /\ inflight[i].op = "sendInput"
  /\ LET result == withRetry(outcomes, DefaultMaxRetries, DefaultDelay) IN
     IF result.ok
     THEN /\ UNCHANGED utilVars
          /\ progress' = addLearnedWords(progress, result.value.vocabulary_words)
          /\ gameState' = UpdatedGameState(inflight[i].gs, result.value, inflight[i].input)
          /\ storage' = SaveEffect(gameState', storage)
          /\ isLoading' = FALSE
          /\ inflight' = RemoveAt(inflight, i)
          /\ lastOp' = Op("sendInput", "settle", "", <<>>, 0, Settled(result), inflight[i], "fulfilled")
          /\ UNCHANGED error
     ELSE Failed(i, "sendInput", result)

BacktrackCall(targetTurn) ==
  LET rejection == BacktrackRejection(gameState, targetTurn) IN
  /\ UNCHANGED utilVars
  /\ lastOp' = Op("backtrackToTurn", "call", "", <<>>, targetTurn, Null, Null,
                  IF rejection # Null THEN "fulfilled" ELSE "pending")
  /\ IF rejection # Null
     THEN /\ error' = rejection
          /\ UNCHANGED <<gameState, isLoading, storage, inflight, progress>>
     ELSE /\ isLoading' = TRUE
          /\ error' = Null
          /\ inflight' = Append(inflight, Request("backtrackToTurn", "", <<>>, targetTurn, gameState))
          /\ UNCHANGED <<gameState, storage, progress>>

BacktrackSettle(i, outcomes) ==
  /\ inflight[i].op = "backtrackToTurn"
  /\ LET result == withRetry(outcomes, DefaultMaxRetries, DefaultDelay) IN
     IF result.ok
     THEN /\ UNCHANGED utilVars
          /\ gameState' = BacktrackedGameState(inflight[i].gs, result.value)
          /\ storage' = SaveEffect(gameState', storage)
          /\ isLoading' = FALSE
          /\ inflight' = RemoveAt(inflight, i)
          /\ lastOp' = Op("backtrackToTurn", "settle", "", <<>>, 0, Settled(result), inflight[i], "fulfilled")
          /\ UNCHANGED <<error, progress>>
     ELSE Failed(i, "backtrackToTurn", result)

EndGameCall ==
  /\ UNCHANGED utilVars
  /\ lastOp' = Op("endGame", "call", "", <<>>, 0, Null, Null,
                  IF gameState = Null THEN "fulfilled" ELSE "pending")
  /\ IF gameState = Null
     THEN UNCHANGED <<gameState, isLoading, error, storage, inflight, progress>>
     ELSE /\ isLoading' = TRUE
          /\ error' = Null
          /\ inflight' = Append(inflight, Request("endGame", "", <<>>, 0, gameState))
          /\ UNCHANGED <<gameState, storage, progress>>

EndGameSettle(i, outcomes) ==
  /\ inflight[i].op = "endGame"
  /\ LET result == withRetry(outcomes, DefaultMaxRetries, DefaultDelay) IN
     IF result.ok
     THEN /\ UNCHANGED utilVars
          /\ gameState' = FinalGameState(inflight[i].gs)
          /\ progress' = updateProgressGamesPlayed(progress)
          /\ storage' = SaveEffect(gameState', storage)
          /\ isLoading' = FALSE
          /\ inflight' = RemoveAt(inflight, i)
          /\ lastOp' = Op("endGame", "settle", "", <<>>, 0, Settled(result), inflight[i], "fulfilled")
          /\ UNCHANGED error
     ELSE Failed(i, "endGame", result)

NewGame ==
  /\ UNCHANGED utilVars
  /\ storage' = clearGameState(storage)
  /\ gameState' = Null
  /\ error' = Null
  /\ progress' = resetCurrentStreak(progress)
  /\ lastOp' = Op("newGame", "sync", "", <<>>, 0, Null, Null, "none")
  /\ UNCHANGED <<isLoading, inflight>>

\* ----------------------------------------------------------- specification
\* The caller awaits each async operation before invoking the next one;
\* newGame, clearError and a page reload can happen at any time.
Idle == inflight = <<>>

\* turns a caller may ask to go back to
Targets == {0, 1} \cup (IF gameState = Null THEN {} ELSE {gameState.turn - 1, gameState.turn})

Next ==
  \/ Mount
  \/ ClearError
  \/ NewGame
  \/ Idle /\ \E genre \in Genres : StartGameCall(genre)
  \/ Idle /\ \E input \in Inputs : SendInputCall(input)
  \/ Idle /\ \E targetTurn \in Targets : BacktrackCall(targetTurn)
  \/ Idle /\ progress.total_games_played < MaxGamesPlayed /\ EndGameCall
  \/ \E i \in 1..Len(inflight) :
       \/ /\ inflight[i].op = "startGame"
          /\ \E outcomes \in Outcomes(StartResponses(inflight[i].genre)) : StartGameSettle(i, outcomes)
       \/ /\ inflight[i].op = "sendInput"
          /\ \E outcomes \in Outcomes(NextResponses([session_id |-> inflight[i].gs.session_id,
                                                      user_input |-> inflight[i].input,
                                                      turn |-> inflight[i].gs.turn])) :
               SendInputSettle(i, outcomes)
       \/ /\ inflight[i].op = "backtrackToTurn"
          /\ \E outcomes \in Outcomes(BacktrackResponses([session_id |-> inflight[i].gs.session_id,
                                                           target_turn |-> inflight[i].target],
                                                          inflight[i].gs)) :
               BacktrackSettle(i, outcomes)
       \/ /\ inflight[i].op = "endGame"
          /\ \E outcomes \in Outcomes(EndResponses) : EndGameSettle(i, outcomes)

Spec == Init /\ [][Next]_vars


\* ---------------------------------------------------- the user interface
\* The operations as the components invoke them.  The choice buttons, the
\* breadcrumb trail and the end-game control are disabled while isLoading; the
\* NEW GAME button of the game window is not; the welcome screen is shown while
\* there is no GameState and refuses a second start only while its own start
\* call is pending.  Each request either succeeds at once or fails with a
\* network error on every attempt.
Responses(request) ==
  CASE request.op = "startGame" -> StartResponses(request.genre)
    [] request.op = "sendInput" ->
         NextResponses([session_id |-> request.gs.session_id, user_input |-> request.input,
                        turn |-> request.gs.turn])
    [] request.op = "backtrackToTurn" ->
         BacktrackResponses([session_id |-> request.gs.session_id, target_turn |-> request.target],
                            request.gs)
    [] request.op = "endGame" -> EndResponses

SettleAt(i) ==
  \E outcomes \in { [j \in 1..DefaultMaxRetries |-> Ok(r)] : r \in Responses(inflight[i]) }
                    \cup { [j \in 1..DefaultMaxRetries |-> Fail(ErrFetch)] } :
    \/ StartGameSettle(i, outcomes)
    \/ SendInputSettle(i, outcomes)
    \/ BacktrackSettle(i, outcomes)
    \/ EndGameSettle(i, outcomes)

NextUi ==
  \/ gameState # Null /\ NewGame
  \/ /\ gameState = Null
     /\ Len(inflight) < MaxInflight
     /\ \A i \in 1..Len(inflight) : inflight[i].op # "startGame"
     /\ \E genre \in {"forest", "space"} : StartGameCall(genre)
  \/ /\ gameState # Null
     /\ ~isLoading
     /\ Len(inflight) < MaxInflight
     /\ \/ gameState.turn < MaxOverlapTurn /\ SendInputCall(<<" ", "g", "o", " ">>)
        \/ \E targetTurn \in Targets : BacktrackCall(targetTurn)
        \/ ~gameState.game_over /\ progress.total_games_played < MaxGamesPlayed /\ EndGameCall
  \/ \E i \in 1..Len(inflight) : SettleAt(i)

SpecUi == Init /\ [][NextUi]_vars


\* ------------------------------------------------- overlapping callers
\* One session, from its start on, with a caller that does not wait for
\* isLoading: sendInput, backtrackToTurn and endGame are invoked while earlier
\* requests are still in flight, and the replies arrive in any order.
NextOverlap ==
  \/ gameState = Null /\ inflight = <<>> /\ StartGameCall("forest")
  \/ /\ gameState # Null
     /\ Len(inflight) < MaxInflight
     /\ \/ gameState.turn < MaxOverlapTurn /\ SendInputCall(<<" ", "g", "o", " ">>)
        \/ /\ lastOp.backtracks <= MAX_BACKTRACK_COUNT
           /\ \E targetTurn \in Targets : BacktrackCall(targetTurn)
        \/ progress.total_games_played < MaxGamesPlayed /\ EndGameCall
  \/ \E i \in 1..Len(inflight) : SettleAt(i)

SpecOverlap == Init /\ [][NextOverlap]_vars


\* ------------------------------------------------- the persistence helpers
\* The load functions applied to whatever the storage area may hold: nothing,
\* the empty string, text that is not JSON, JSON values of every kind, objects
\* with each validated member missing, well typed or wrongly typed, a state
\* the hook saved; or a storage area whose access throws.
InitStorage ==
  LET Members(m) == [f \in {g \in DOMAIN m : m[g] # Null} |-> m[f]]
      StoredGameObjects ==
        { JObj(Members([session_id |-> sid, turn |-> turn, history |-> history])) :
            sid \in {Null, JStr("s1"), JNum(7), JNull},
            turn \in {Null, JNum(3), JStr("3")},
            history \in {Null, JArr(<<>>), JObj([length |-> JNum(0)]), JStr("")} }
      SavedGameItem ==
        saveGameState(NewGameState("forest", [session_id |-> "s1", story_intro |-> StoryIntro("forest"),
                                               turn |-> 1, choices |-> Null]), Null)
      StoredProgressObjects ==
        { JObj(Members([words_learned |-> learned, definitions_viewed |-> viewed,
                        words_mastered |-> mastered, total_games_played |-> played])) :
            learned \in {Null, JArr(<<"magic">>), JStr("magic")},
            viewed \in {Null, JArr(<<>>), JNull},
            mastered \in {Null, JArr(<<>>), JNum(0)},
            played \in {Null, JNum(2), JStr("2")} }
  IN
  /\ storage \in {Null, EmptyText, MalformedText, Unavailable, SavedGameItem}
                   \cup { JsonText(j) : j \in {JNull, JNum(0), JNum(7), JStr("s1"), JBool(TRUE), JArr(<<>>)} }
                   \cup { JsonText(j) : j \in StoredGameObjects }
  /\ vocabularyItem \in {Null, EmptyText, MalformedText, Unavailable}
                          \cup { JsonText(j) : j \in {JNull, JNum(7), JArr(<<>>)} }
                          \cup { JsonText(j) : j \in StoredProgressObjects }
  /\ call = NoCall
  /\ handed = Null
  /\ gameState = Null
  /\ isLoading = FALSE
  /\ error = Null
  /\ inflight = <<>>
  /\ progress = DefaultProgress
  /\ lastOp = NoOp
  /\ gameWindow = Null

LoadGameState ==
  /\ call' = Call("loadGameState", storage, loadGameState(storage))
  /\ UNCHANGED <<hookVars, storage, progress, vocabularyItem, gameWindow, handed>>

LoadVocabularyProgress ==
  /\ call' = Call("loadVocabularyProgress", vocabularyItem, loadVocabularyProgress(vocabularyItem))
  /\ UNCHANGED <<hookVars, storage, progress, vocabularyItem, gameWindow, handed>>

NextStorage ==
  \/ LoadGameState
  \/ LoadVocabularyProgress

SpecStorage == InitStorage /\ [][NextStorage]_vars


\* ------------------------------------------------------------ the API helpers
\* withRetry called directly, with every combination of attempts that fail
\* (network, HTTP 404, HTTP 500) or succeed, every maxRetries up to
\* MaxRetriesArg and several delays; handleAPIError called with Error objects
\* and other thrown values carrying every message of up to MaxMessageLen tokens
\* one call is about to be made
InitApi ==
  /\ LET RetryOutcomes ==
           [1..MaxRetriesArg -> {Ok(r) : r \in {"r1", "r2"}} \cup {Fail(e) : e \in ThrownErrors}]
         Delays == {0, 250, DefaultDelay}
         MessageTokens == {"HTTP ", "4", "2", "9", "5", "0", "Failed to fetch", "NetworkError"}
         Messages == UNION { [1..n -> MessageTokens] : n \in 0..MaxMessageLen }
         \* an Error with a message, or a thrown value that is not an Error (a string)
         ThrownValues == { [isError |-> isError, message |-> m] : isError \in BOOLEAN, m \in Messages }
     IN call \in { Call("withRetry", [outcomes |-> outcomes, maxRetries |-> maxRetries, delay |-> delay],
                        Pending) :
                     outcomes \in RetryOutcomes, maxRetries \in 0..MaxRetriesArg, delay \in Delays }
                \cup { Call("handleAPIError", err, Pending) : err \in ThrownValues }
  /\ vocabularyItem = Null
  /\ handed = Null
  /\ storage = Null
  /\ gameState = Null
  /\ isLoading = FALSE
  /\ error = Null
  /\ inflight = <<>>
  /\ progress = DefaultProgress
  /\ lastOp = NoOp
  /\ gameWindow = Null

WithRetryCall ==
  /\ call.fn = "withRetry"
  /\ call.completion = Pending
  /\ call' = [call EXCEPT !.completion =
                withRetry(call.arg.outcomes, call.arg.maxRetries, call.arg.delay)]
  /\ UNCHANGED <<hookVars, storage, progress, vocabularyItem, gameWindow, handed>>

HandleAPIErrorCall ==
  /\ call.fn = "handleAPIError"
  /\ call.completion = Pending
  /\ call' = [call EXCEPT !.completion = Ok(handleAPIError(call.arg))]
  /\ UNCHANGED <<hookVars, storage, progress, vocabularyItem, gameWindow, handed>>

NextApi ==
  \/ WithRetryCall
  \/ HandleAPIErrorCall

SpecApi == InitApi /\ [][NextApi]_vars


\* ------------------------------------------------- the vocabulary manager
\* A VocabularyManager created with the default progress and driven through
\* its methods with words in several spellings
InitVocabulary ==
  /\ progress = DefaultProgress
  /\ call = NoCall
  /\ handed = Null
  /\ vocabularyItem = Null
  /\ storage = Null
  /\ gameState = Null
  /\ isLoading = FALSE
  /\ error = Null
  /\ inflight = <<>>
  /\ lastOp = NoOp
  /\ gameWindow = Null

AddLearnedWord(word) ==
  /\ progress' = addLearnedWord(progress, word)
  /\ call' = Call("addLearnedWord", word, Ok(Null))
  /\ UNCHANGED <<hookVars, storage, vocabularyItem, gameWindow, handed>>

ResetCurrentStreak ==
  /\ progress' = resetCurrentStreak(progress)
  /\ call' = Call("resetCurrentStreak", Null, Ok(Null))
  /\ UNCHANGED <<hookVars, storage, vocabularyItem, gameWindow, handed>>

GetProgressStats ==
  /\ call' = Call("getProgressStats", Null, Ok(getProgressStats(progress)))
  /\ UNCHANGED <<hookVars, storage, progress, vocabularyItem, gameWindow, handed>>

NextVocabulary ==
  \/ \E word \in {"Magic", "magic", "MAGIC", "Quest", "quest", "Riddle", "riddle"} : AddLearnedWord(word)
  \/ ResetCurrentStreak
  \/ GetProgressStats

SpecVocabulary == InitVocabulary /\ [][NextVocabulary]_vars


\* -------------------------------------- callers of VocabularyManager.getProgress
\* The manager together with a caller that keeps the object getProgress()
\* returned and writes to it: assigns a counter, assigns a fresh array to a
\* member, pushes a word to the array a member holds.
GetProgress ==
  /\ handed' = getProgress(progress)
  /\ call' = Call("getProgress", Null, Ok(Null))
  /\ UNCHANGED <<hookVars, storage, progress, vocabularyItem, gameWindow>>

\* returned.current_streak = n
AssignHandedStreak(n) ==
  /\ handed # Null
  /\ handed' = [handed EXCEPT !.current_streak = n]
  /\ call' = Call("returned.current_streak =", Null, Ok(Null))
  /\ UNCHANGED <<hookVars, storage, progress, vocabularyItem, gameWindow>>

\* returned[f] = []
AssignHandedArray(f) ==
  /\ handed # Null
  /\ handed' = [handed EXCEPT ![f] = Own(<<>>)]
  /\ call' = Call("returned[f] =", f, Ok(Null))
  /\ UNCHANGED <<hookVars, storage, progress, vocabularyItem, gameWindow>>

\* returned[f].push(word)
PushToHanded(f, word) ==
  /\ handed # Null
  /\ call' = Call("returned[f].push", f, Ok(Null))
  /\ IF handed[f] = Ref(f)
     THEN /\ Len(progress[f]) < MaxPushedLen
          /\ progress' = [progress EXCEPT ![f] = Append(@, word)]
          /\ UNCHANGED handed
     ELSE /\ Len(handed[f].own) < MaxPushedLen
          /\ handed' = [handed EXCEPT ![f] = Own(Append(@.own, word))]
          /\ UNCHANGED progress
  /\ UNCHANGED <<hookVars, storage, vocabularyItem, gameWindow>>

NextVocabularyCallers ==
  \/ AddLearnedWord("Magic")
  \/ GetProgressStats
  \/ GetProgress
  \/ AssignHandedStreak(99)
  \/ \E f \in ArrayFields : AssignHandedArray(f)
  \/ \E f \in ArrayFields : PushToHanded(f, "shadow")

SpecVocabularyCallers == InitVocabulary /\ [][NextVocabularyCallers]_vars


\* ------------------------------- the manager as the game session drives it
\* sendInput's response.vocabulary_words.forEach(word => addLearnedWord(word))
SendInputVocabulary(words) ==
  /\ progress' = addLearnedWords(progress, words)
  /\ call' = Call("sendInput", words, Ok(Null))
  /\ UNCHANGED <<hookVars, storage, vocabularyItem, gameWindow, handed>>

\* the GameWindow renders highlightVocabularyWords(displayedText, vocabularyManager)
RenderNarrative(text) ==
  /\ LET result == highlightVocabularyWords(text, progress)
     IN /\ progress' = result.progress
        /\ call' = Call("highlightVocabularyWords", [text |-> text, manager |-> TRUE], Ok(Null))
  /\ UNCHANGED <<hookVars, storage, vocabularyItem, gameWindow, handed>>

\* the words the backend reports are its own choice; the narratives use the
\* dictionary's words
NextVocabularyProgress ==
  \/ \E words \in {<<"Magic">>, <<"Quest", "magic">>, <<"riddle", "Riddle">>} :
       SendInputVocabulary(words)
  \/ \E text \in {<<"adventure", " ", "mysterious", " ", "courage", " ", "ancient">>,
                  <<"Discover", " ", "enchanted", " ", "riddle">>,
                  <<"treasure", " ", "wisdom", " ", "labyrinth">>} :
       RenderNarrative(text)
  \/ GetProgressStats

SpecVocabularyProgress == InitVocabulary /\ [][NextVocabularyProgress]_vars


\* ------------------------------------------------ the text annotation
\* highlightVocabularyWords called once on a narrative text: words in and out
\* of the dictionary, a word ending, a blank, a text that looks like a
\* placeholder and one that looks like markup
Texts ==
  LET tokens == {"Adventure", "treasure", "discover", "cave", "s", " ", "__VOCAB_RIDDLE__", "<br>"}
  IN UNION { [1..n -> tokens] : n \in 0..MaxTextLen }

InitHighlight ==
  /\ call \in { Call("highlightVocabularyWords", [text |-> t, manager |-> m], Pending) :
                  t \in Texts, m \in BOOLEAN }
  /\ progress = DefaultProgress
  /\ handed = Null
  /\ vocabularyItem = Null
  /\ storage = Null
  /\ gameState = Null
  /\ isLoading = FALSE
  /\ error = Null
  /\ inflight = <<>>
  /\ lastOp = NoOp
  /\ gameWindow = Null

HighlightVocabularyWords ==
  /\ call.fn = "highlightVocabularyWords"
  /\ call.completion = Pending
  /\ LET result == highlightVocabularyWords(call.arg.text, progress)
     IN /\ call' = [call EXCEPT !.completion = Ok(result.text)]
        /\ progress' = IF call.arg.manager THEN result.progress ELSE progress
  /\ UNCHANGED <<hookVars, storage, vocabularyItem, gameWindow, handed>>

\* the markup a call returned is handed to highlightVocabularyWords again
HighlightOutput ==
  /\ call.fn = "highlightVocabularyWords"
  /\ call.completion # Pending
  /\ handed = Null
  /\ LET result == highlightVocabularyWords(call.completion.value, progress)
     IN /\ call' = Call("highlightVocabularyWords",
                        [text |-> call.completion.value, manager |-> call.arg.manager],
                        Ok(result.text))
        /\ progress' = IF call.arg.manager THEN result.progress ELSE progress
  /\ handed' = Some(call.arg.text)
  /\ UNCHANGED <<hookVars, storage, vocabularyItem, gameWindow>>

NextHighlight ==
  \/ HighlightVocabularyWords
  \/ HighlightOutput

SpecHighlight == InitHighlight /\ [][NextHighlight]_vars


\* ------------------------------------------------ the GameWindow typewriter
\* The local state of the GameWindow component: isTyping, displayedText,
\* showChoices and contentKey (useState), the running setInterval with the
\* text and index its callback closed over, the number of pending 300 ms
\* timeouts, the ai_response of the current turn and settings.skipAnimations
\* (props).  turns are the narrative texts the following turns will bring, and
\* skipped records that handleSkipAnimation ran since the effect last ran.  A
\* text is a sequence of characters.

\* the typewriter effect: the cleanup of its previous run, then its body
TypewriterEffect(w, response) ==
  LET cleaned == [w EXCEPT !.typeInterval = Null, !.isTyping = FALSE,
                           !.ai_response = response, !.skipped = FALSE]
  IN IF response = Null \/ w.skipAnimations
     THEN [cleaned EXCEPT !.displayedText = IF response = Null THEN <<>> ELSE response.value,
                          !.showChoices = TRUE,
                          !.contentKey = @ + 1]
     ELSE [cleaned EXCEPT !.isTyping = TRUE,
                          !.displayedText = <<>>,
                          !.showChoices = FALSE,
                          !.typeInterval = [text |-> response.value, index |-> 0]]

\* the component is mounted with the first turn's text and a setting
InitGameWindow ==
  /\ LET texts == {<<>>, <<"H", "i">>, <<"G", "o", "!">>}
         mounted(skipAnimations, turns) ==
           [turns |-> turns, ai_response |-> Null, skipAnimations |-> skipAnimations,
            isTyping |-> FALSE, displayedText |-> <<>>, showChoices |-> FALSE,
            contentKey |-> 0, typeInterval |-> Null, timeouts |-> 0, skipped |-> FALSE]
     IN gameWindow \in
          { TypewriterEffect(mounted(skipAnimations, Tail(turns)), Some(Head(turns))) :
              skipAnimations \in BOOLEAN,
              turns \in UNION { [1..n -> texts] : n \in 1..MaxWindowTurns } }
  /\ call = NoCall
  /\ progress = DefaultProgress
  /\ handed = Null
  /\ vocabularyItem = Null
  /\ storage = Null
  /\ gameState = Null
  /\ isLoading = FALSE
  /\ error = Null
  /\ inflight = <<>>
  /\ lastOp = NoOp

\* one firing of the setInterval callback
TypeInterval ==
  /\ gameWindow.typeInterval # Null
  /\ LET text == gameWindow.typeInterval.text
         index == gameWindow.typeInterval.index
     IN gameWindow' =
          IF index < Len(text)
          THEN [gameWindow EXCEPT !.displayedText = SubSeq(text, 1, index + 1),
                                  !.typeInterval.index = index + 1]
          ELSE [gameWindow EXCEPT !.typeInterval = Null,
                                  !.isTyping = FALSE,
                                  !.timeouts = @ + 1]
  /\ UNCHANGED <<hookVars, storage, progress, vocabularyItem, call, handed>>

\* the 300 ms timeout set when the typing completed
ShowChoicesTimeout ==
  /\ gameWindow.timeouts > 0
  /\ gameWindow' = [gameWindow EXCEPT !.timeouts = @ - 1,
                                      !.showChoices = TRUE,
                                      !.contentKey = @ + 1]
  /\ UNCHANGED <<hookVars, storage, progress, vocabularyItem, call, handed>>

\* the skip button is rendered while isTyping
handleSkipAnimation ==
  /\ gameWindow.isTyping
  /\ gameWindow' =
       IF gameWindow.ai_response # Null
       THEN [gameWindow EXCEPT !.displayedText = gameWindow.ai_response.value,
                               !.isTyping = FALSE,
                               !.showChoices = TRUE,
                               !.contentKey = @ + 1,
                               !.skipped = TRUE]
       ELSE gameWindow
  /\ UNCHANGED <<hookVars, storage, progress, vocabularyItem, call, handed>>

\* a new turn is rendered; the effect runs again when its ai_response differs
CurrentTurnChanges ==
  /\ gameWindow.turns # <<>>
  /\ LET response == Some(Head(gameWindow.turns))
         rendered == [gameWindow EXCEPT !.turns = Tail(@)]
     IN gameWindow' = IF response = gameWindow.ai_response
                      THEN rendered
                      ELSE TypewriterEffect(rendered, response)
  /\ UNCHANGED <<hookVars, storage, progress, vocabularyItem, call, handed>>

NextGameWindow ==
  \/ TypeInterval
  \/ ShowChoicesTimeout
  \/ handleSkipAnimation
  \/ CurrentTurnChanges

SpecGameWindow == InitGameWindow /\ [][NextGameWindow]_vars


\* ------------------------------------------------------------------ claims
\* the last step was the success continuation of the async operation op
SettledOk(op) == lastOp.op = op /\ lastOp.phase = "settle" /\ lastOp.api.ok

C2_BacktrackCountBounded ==
  gameState # Null =>
    /\ 0 <= gameState.backtrack_count
    /\ gameState.backtrack_count <= MAX_BACKTRACK_COUNT

\* the second backtrack of a session has just been applied
C2_Witness ==
  /\ SettledOk("backtrackToTurn")
  /\ lastOp.req.gs.backtrack_count = MAX_BACKTRACK_COUNT - 1
  /\ gameState.backtrack_count = MAX_BACKTRACK_COUNT

C5_SendInputRejected ==
  [][ ( /\ lastOp'.op = "sendInput"
        /\ lastOp'.phase = "call"
        /\ \/ gameState = Null
           \/ gameState.game_over
           \/ gameState.turn >= MAX_TURNS
           \/ Trim(lastOp'.input) = <<>> )
      => ( /\ gameState' = gameState
           /\ storage' = storage
           /\ error' # Null
           /\ inflight' = inflight
           /\ isLoading' = isLoading ) ]_vars

\* a blank text was submitted to a running game
C5_Witness ==
  /\ lastOp.op = "sendInput"
  /\ lastOp.phase = "call"
  /\ lastOp.input = <<" ", " ">>
  /\ gameState # Null
  /\ ~gameState.game_over
  /\ error = Some(MsgInvalidInput)
  /\ inflight = <<>>

\* C6: after a successful sendInput, game_over equals (backend game_over flag
\* or new turn >= MAX_TURNS); so the game is over at MAX_TURNS even when the
\* backend did not set its flag.
C6_GameOverAfterSend ==
  SettledOk("sendInput") =>
    /\ gameState.game_over = (lastOp.api.value.game_over \/ lastOp.api.value.turn >= MAX_TURNS)
    /\ gameState.turn = lastOp.api.value.turn
    /\ (gameState.turn = MAX_TURNS => gameState.game_over)

\* turn MAX_TURNS reached by a response whose game_over flag was not set
C6_Witness ==
  /\ SettledOk("sendInput")
  /\ ~lastOp.api.value.game_over
  /\ gameState.turn = MAX_TURNS
  /\ gameState.game_over

\* C7: when backtrackToTurn succeeds the GameState becomes the backend's
\* restored_state with backtrack_count set to the count before the call plus
\* one, whatever count the response carries.
C7_BacktrackReplacesState ==
  SettledOk("backtrackToTurn") =>
    gameState = [lastOp.api.value.restored_state EXCEPT
                   !.backtrack_count = lastOp.req.gs.backtrack_count + 1]

\* start, two sendInputs, backtrackToTurn(1), the reply carrying another count
C7_Witness ==
  /\ SettledOk("backtrackToTurn")
  /\ lastOp.req.target = 1
  /\ lastOp.req.gs.turn = 3
  /\ lastOp.req.gs.backtrack_count = 0
  /\ lastOp.api.value.restored_state.backtrack_count = 3
  /\ Len(gameState.history) = 1
  /\ gameState.turn = 1
  /\ gameState.backtrack_count = 1

\* C8: backtrackToTurn(target) issues a request only if a GameState exists,
\* backtrack_count < MAX_BACKTRACK_COUNT and 1 <= target < turn; otherwise it
\* sets error, issues nothing and leaves the GameState unchanged.
C8_BacktrackGuard ==
  [][ ( lastOp'.op = "backtrackToTurn" /\ lastOp'.phase = "call" )
      => LET valid == /\ gameState # Null
                      /\ gameState.backtrack_count < MAX_BACKTRACK_COUNT
                      /\ 1 <= lastOp'.target
                      /\ lastOp'.target < gameState.turn
         IN /\ (inflight' # inflight => valid)
            /\ (~valid => /\ gameState' = gameState
                          /\ storage' = storage
                          /\ error' # Null
                          /\ inflight' = inflight) ]_vars

\* a third backtrack to a valid earlier turn was refused
C8_Witness ==
  /\ lastOp.op = "backtrackToTurn"
  /\ lastOp.phase = "call"
  /\ gameState # Null
  /\ gameState.backtrack_count = MAX_BACKTRACK_COUNT
  /\ 1 <= lastOp.target
  /\ lastOp.target < gameState.turn
  /\ error = Some(MsgNoBacktracks)
  /\ inflight = <<>>

\* C9: when the API call of start, sendInput, backtrackToTurn or endGame
\* fails after the retries, the GameState and the stored state are left as
\* they were, error holds the humanized message, isLoading is false again
\* and the operation's promise is fulfilled, not rejected.
C9_FailureLeavesState ==
  [][ ( /\ lastOp'.op \in {"startGame", "sendInput", "backtrackToTurn", "endGame"}
        /\ lastOp'.phase = "settle"
        /\ ~lastOp'.api.ok )
      => ( /\ gameState' = gameState
           /\ storage' = storage
           /\ progress' = progress
           /\ isLoading' = FALSE
           /\ lastOp'.promise = "fulfilled"
           /\ error' # Null
           /\ (lastOp'.api.error = ErrFetch => error' = Some(MsgConnect))
           /\ (lastOp'.api.error = ErrHttp500 => error' = Some(MsgServer))
           /\ (lastOp'.api.error = ErrHttp404 => error' = Some(ErrHttp404.message)) ) ]_vars

\* a start failed with a network error and no GameState appeared
C9_Witness ==
  /\ lastOp.op = "startGame"
  /\ lastOp.phase = "settle"
  /\ ~lastOp.api.ok
  /\ lastOp.api.error = ErrFetch
  /\ gameState = Null
  /\ error = Some(MsgConnect)
  /\ ~isLoading

\* C10: a start call issues its request, and a start response replaces the
\* GameState, only while no GameState exists.
C10_StartOnlyFromNotStarted ==
  [][ ( /\ lastOp'.op = "startGame"
        /\ \/ lastOp'.phase = "call" /\ inflight' # inflight
           \/ lastOp'.phase = "settle" /\ lastOp'.api.ok )
      => gameState = Null ]_vars

\* C11: a successful endGame sets game_over on the GameState it was called on
\* and leaves session_id, turn, history, vocabulary_learned and
\* backtrack_count as they were, and adds exactly 1 to total_games_played; a
\* failed endGame leaves GameState, stored state and progress unchanged and
\* sets error.
C11_EndGameFrame ==
  [][ ( lastOp'.op = "endGame" /\ lastOp'.phase = "settle" )
      => IF lastOp'.api.ok
         THEN /\ gameState' # Null
              /\ gameState'.game_over
              /\ \A f \in {"session_id", "turn", "history", "vocabulary_learned", "backtrack_count"} :
                   /\ gameState'[f] = lastOp'.req.gs[f]
                   /\ (gameState # Null => gameState'[f] = gameState[f])
              /\ progress'.total_games_played = progress.total_games_played + 1
              /\ progress'.words_learned = progress.words_learned
              /\ progress'.current_streak = progress.current_streak
              /\ progress'.best_streak = progress.best_streak
         ELSE /\ gameState' = gameState
              /\ storage' = storage
              /\ progress' = progress
              /\ error' # Null ]_vars

\* a game with several turns, learned words and a used backtrack was ended
C11_Witness ==
  /\ SettledOk("endGame")
  /\ ~lastOp.req.gs.game_over
  /\ gameState.game_over
  /\ Len(gameState.history) > 1
  /\ gameState.vocabulary_learned # <<>>
  /\ gameState.backtrack_count > 0
  /\ progress.total_games_played = 1

\* C12: newGame, from any state, removes the stored game state, leaves no
\* GameState and no error, sets current_streak to 0 and issues no request.
C12_NewGameResets ==
  [][ lastOp'.op = "newGame"
      => ( /\ storage' = Null
           /\ loadGameState(storage') = Ok(Null)
           /\ gameState' = Null
           /\ error' = Null
           /\ progress' = [progress EXCEPT !.current_streak = 0]
           /\ inflight' = inflight
           /\ isLoading' = isLoading ) ]_vars

\* newGame ran while a request of a running game was still in flight
C12_Witness ==
  /\ lastOp.op = "newGame"
  /\ inflight # <<>>
  /\ inflight[1].op = "sendInput"
  /\ inflight[1].gs.turn > 1
  /\ progress.best_streak > 0
  /\ progress.current_streak = 0
  /\ storage = Null

\* C13: whenever a GameState exists, loadGameState() returns a state equal to
\* it in every GameState field (the save effect has run after each change).
C13_StoredEqualsMemory ==
  gameState # Null =>
    LET loaded == loadGameState(storage) IN
    /\ loaded.ok
    /\ loaded.value # Null
    /\ \A f \in GameStateFields : loaded.value[f] = gameState[f]

\* a restored state without choices was stored after a turn was undone
C13_Witness ==
  /\ SettledOk("backtrackToTurn")
  /\ gameState.current_choices = Null
  /\ gameState.turn = 2
  /\ lastOp.req.gs.turn = 3
  /\ loadGameState(storage).value.turn = 2

\* the stored text is JSON for an object with a string session_id, a numeric
\* turn and an array history
ValidStoredGameState(item) ==
  /\ item \notin {Null, EmptyText, MalformedText, Unavailable}
  /\ item.json.t = "object"
  /\ {"session_id", "turn", "history"} \subseteq DOMAIN item.json.o
  /\ item.json.o.session_id.t = "string"
  /\ item.json.o.turn.t = "number"
  /\ item.json.o.history.t = "array"

\* C14: loadGameState never throws; it returns null when nothing is stored,
\* when the stored text is not JSON, or when the stored value lacks a string
\* session_id, a numeric turn or an array history, and the stored state
\* otherwise.
C14_LoadGameStateValidates ==
  call.fn = "loadGameState" =>
    /\ call.arg = storage
    /\ call.completion.ok
    /\ IF ValidStoredGameState(storage)
       THEN /\ call.completion.value # Null
            /\ call.completion.value.session_id = storage.json.o.session_id.s
            /\ call.completion.value.turn = storage.json.o.turn.n
            /\ call.completion.value.history = storage.json.o.history.a
       ELSE call.completion.value = Null

\* a stored object whose turn is a string was read as absent
C14_Witness ==
  /\ call.fn = "loadGameState"
  /\ storage = JsonText(JObj([session_id |-> JStr("s1"), turn |-> JStr("3"), history |-> JArr(<<>>)]))
  /\ call.completion = Ok(Null)

\* C15: loadVocabularyProgress never throws, and it returns a stored progress
\* object only if words_learned, definitions_viewed and words_mastered are
\* arrays and total_games_played is a number.
C15_LoadVocabularyProgressValidates ==
  call.fn = "loadVocabularyProgress" =>
    /\ call.completion.ok
    /\ call.completion.value # Null =>
         /\ IsArrayMember(call.completion.value, "words_learned")
         /\ IsArrayMember(call.completion.value, "definitions_viewed")
         /\ IsArrayMember(call.completion.value, "words_mastered")
         /\ TypeOfMember(call.completion.value, "total_games_played") = "number"

\* the index of the first attempt among the first n that succeeds, 0 if none
FirstSuccess(outcomes, n) ==
  IF \E k \in 1..n : outcomes[k].ok
  THEN CHOOSE k \in 1..n : outcomes[k].ok /\ \A j \in 1..(k - 1) : ~outcomes[j].ok
  ELSE 0

\* k attempts, the sleep after the i-th of them (i from 0) is delay * 2^i, no
\* sleep after the last
BackoffTrace(k, delay) ==
  [j \in 1..(2 * k - 1) |->
     IF j % 2 = 1 THEN [attempt |-> (j - 1) \div 2] ELSE [wait |-> delay * 2^((j \div 2) - 1)]]

\* C16: withRetry calls the operation until its first success and returns
\* that result; when all maxRetries attempts fail, whatever the errors, it
\* makes exactly maxRetries attempts, sleeps delay * 2^i after the i-th failed
\* one except the last, and throws the last attempt's error; with 3 and 1000
\* the attempts follow sleeps of 0 (none), 1000 and 2000.
C16_WithRetryBackoff ==
  (call.fn = "withRetry" /\ call.completion # Pending) =>
    LET outcomes == call.arg.outcomes
        n == call.arg.maxRetries
        first == FirstSuccess(outcomes, n)
        done == call.completion
    IN /\ first > 0 => /\ done.ok
                       /\ done.value = outcomes[first].value
                       /\ done.trace = BackoffTrace(first, call.arg.delay)
       /\ first = 0 => /\ ~done.ok
                       /\ done.trace = BackoffTrace(n, call.arg.delay)
                       /\ n >= 1 => done.error = outcomes[n].error
       /\ (first = 0 /\ n = 3 /\ call.arg.delay = 1000) =>
            done.trace = <<[attempt |-> 0], [wait |-> 1000], [attempt |-> 1],
                           [wait |-> 2000], [attempt |-> 2]>>

\* three attempts failing with HTTP 404, HTTP 500 and a network error, base
\* delay 1000: the network error is thrown after the third
C16_Witness ==
  /\ call.fn = "withRetry"
  /\ call.arg.maxRetries = 3
  /\ call.arg.delay = 1000
  /\ call.arg.outcomes[1] = Fail(ErrHttp404)
  /\ call.arg.outcomes[2] = Fail(ErrHttp500)
  /\ call.arg.outcomes[3] = Fail(ErrFetch)
  /\ call.completion # Pending
  /\ ~call.completion.ok
  /\ call.completion.error = ErrFetch
  /\ Len(call.completion.trace) = 5

\* pat occurs in text
Matches(text, pat) ==
  \E i \in 0..(Len(text) - Len(pat)) : \A j \in 1..Len(pat) : text[i + j] = pat[j]

\* the first of the three patterns that the message of an Error matches
ErrorPattern(err) ==
  IF ~err.isError THEN "none"
  ELSE IF Matches(err.message, <<"NetworkError">>) \/ Matches(err.message, <<"Failed to fetch">>)
       THEN "network"
  ELSE IF Matches(err.message, <<"HTTP ", "4", "2", "9">>) THEN "429"
  ELSE IF Matches(err.message, <<"HTTP ", "5">>) THEN "5xx"
  ELSE "none"

\* C17: handleAPIError maps an error matching the network-failure pattern to
\* the connectivity message, otherwise one matching HTTP 429 to the
\* too-many-requests message, otherwise one matching HTTP 5xx to the
\* server-issues message, and anything else to a generic fallback text.
C17_HandleAPIErrorGeneric ==
  (call.fn = "handleAPIError" /\ call.completion # Pending) =>
    call.completion =
      Ok(CASE ErrorPattern(call.arg) = "network" -> MsgConnect
           [] ErrorPattern(call.arg) = "429" -> MsgTooMany
           [] ErrorPattern(call.arg) = "5xx" -> MsgServer
           [] OTHER -> MsgUnexpected)

\* C17 as amended: the same for the three patterns; any other Error maps to
\* its own message, and a thrown value that is not an Error maps to the
\* generic fallback text, whatever it says.
C17_HandleAPIErrorMapping ==
  (call.fn = "handleAPIError" /\ call.completion # Pending) =>
    call.completion =
      Ok(CASE ErrorPattern(call.arg) = "network" -> MsgConnect
           [] ErrorPattern(call.arg) = "429" -> MsgTooMany
           [] ErrorPattern(call.arg) = "5xx" -> MsgServer
           [] OTHER -> IF call.arg.isError THEN call.arg.message ELSE MsgUnexpected)

\* an Error saying HTTP 404 came back as its own message
C17_Witness ==
  /\ call.fn = "handleAPIError"
  /\ call.arg = [isError |-> TRUE, message |-> <<"HTTP ", "4", "0", "4">>]
  /\ call.completion = Ok(<<"HTTP ", "4", "0", "4">>)

\* C18: addLearnedWord is idempotent and case-insensitive: words_learned
\* holds each word once, in lowercase; current_streak grows by 1 exactly on a
\* first-time insertion; best_streak is the running maximum of current_streak,
\* so best_streak >= current_streak after every addLearnedWord and
\* resetCurrentStreak.
C18_AddLearnedWordIdempotent ==
  [][ /\ call'.fn = "addLearnedWord" =>
           LET word == CASE call'.arg \in {"Magic", "magic", "MAGIC"} -> "magic"
                         [] call'.arg \in {"Quest", "quest"} -> "quest"
                         [] call'.arg \in {"Riddle", "riddle"} -> "riddle"
               known == \E i \in 1..Len(progress.words_learned) : progress.words_learned[i] = word
           IN /\ IF known
                 THEN progress' = progress
                 ELSE /\ progress'.words_learned = Append(progress.words_learned, word)
                      /\ progress'.current_streak = progress.current_streak + 1
              /\ progress'.best_streak =
                   IF progress'.current_streak > progress.best_streak
                   THEN progress'.current_streak ELSE progress.best_streak
      /\ call'.fn = "resetCurrentStreak" =>
           progress' = [progress EXCEPT !.current_streak = 0]
      /\ \A i, j \in 1..Len(progress'.words_learned) :
           /\ i # j => progress'.words_learned[i] # progress'.words_learned[j]
           /\ progress'.words_learned[i] \in {"magic", "quest", "riddle"}
      /\ progress'.best_streak >= progress'.current_streak ]_vars

\* "Magic" was added when "magic" was already the first word learned: one
\* entry, and the streak counts the two words only
C18_Witness ==
  /\ call.fn = "addLearnedWord"
  /\ call.arg = "Magic"
  /\ progress.words_learned = <<"magic", "quest">>
  /\ progress.current_streak = 2
  /\ progress.best_streak = 2

\* C19: getProgress returns a defensive copy: no write to the returned object
\* or to its words_learned / definitions_viewed / words_mastered arrays
\* changes what getProgress() and getProgressStats() report afterwards.
C19_GetProgressDefensiveCopy ==
  [][ call'.fn \in {"returned.current_streak =", "returned[f] =", "returned[f].push"}
      => /\ progress' = progress
         /\ getProgressStats(progress') = getProgressStats(progress) ]_vars

\* the tags createSafeTooltip writes in one piece
WholeTags == {Template.spanTooltipOpen, Template.spanClose, "<strong>", "</strong>", "<br>", "<em>", "</em>"}

\* the text with every tag taken out: a tag runs from its "<" to the next ">"
StripTags(text) ==
  LET InTag(i) ==
        \E j \in 1..i : /\ text[j] = Template.spanWordOpen
                        /\ \A k \in (j + 1)..(i - 1) : text[k] # Template.attributeClose
  IN SelectSeq([i \in 1..Len(text) |-> IF text[i] \in WholeTags \/ InTag(i) THEN "" ELSE text[i]],
               LAMBDA tok : tok # "")

\* the words left of the markup: the vocabulary-tooltip spans dropped with
\* their content, the tags stripped, and the template's line breaks around the
\* wrapped word trimmed
WrappedText(text) ==
  LET InTooltip(i) ==
        \E j \in 1..i : /\ text[j] = Template.spanTooltipOpen
                        /\ \A k \in (j + 1)..(i - 1) : text[k] # Template.spanClose
      outside == SelectSeq([i \in 1..Len(text) |-> IF InTooltip(i) THEN "" ELSE text[i]],
                           LAMBDA tok : tok # "")
  IN SelectSeq(StripTags(outside),
               LAMBDA tok : tok \notin {Template.nl4, Template.nl6, Template.nl8})

\* a narrative text without markup and without placeholder tokens
PlainText(text) ==
  \A i \in 1..Len(text) :
    /\ text[i] \notin WholeTags \cup {Template[f] : f \in DOMAIN Template}
    /\ \A k \in 1..Len(DictionaryKeys) : text[i] # Placeholder(DictionaryKeys[k])

HighlightDone == call.fn = "highlightVocabularyWords" /\ call.completion # Pending

\* C20 (as stated): for every input text t, stripping the markup tags from
\* highlightVocabularyWords(t) gives t back exactly.
C20_StripTagsRoundTrip ==
  HighlightDone => StripTags(call.completion.value) = call.arg.text

\* C20 (amended): for every input text t without markup and without
\* placeholder tokens, dropping the vocabulary-tooltip spans of
\* highlightVocabularyWords(t) with their content, stripping the remaining tags
\* and trimming the template's line breaks gives t back exactly.
C20_WrappedTextRoundTrip ==
  (HighlightDone /\ PlainText(call.arg.text))
    => WrappedText(call.completion.value) = call.arg.text

\* a text with two dictionary words, one capitalised, was annotated: the
\* markup differs from the text and carries tooltip text between its tags
C20_Witness ==
  /\ HighlightDone
  /\ call.arg.text = <<"Adventure", " ", "treasure">>
  /\ call.completion.value # call.arg.text
  /\ StripTags(call.completion.value) # call.arg.text
  /\ WrappedText(call.completion.value) = call.arg.text

\* C21: for every input text t, highlightVocabularyWords applied to
\* highlightVocabularyWords(t) wraps the same outer words as
\* highlightVocabularyWords(t) does and puts no vocabulary-word span inside a
\* span that is already there.
C21_HighlightOutputKeepsWrapping ==
  (HighlightDone /\ handed # Null) =>
    LET once == call.arg.text
        twice == call.completion.value
        Depth(markup, n) ==
          Cardinality({j \in 1..(n - 1) : markup[j] \in {Template.spanWordOpen, Template.spanTooltipOpen}})
            - Cardinality({j \in 1..(n - 1) : markup[j] = Template.spanClose})
        Opens(tokens) == {k \in 1..Len(tokens) : tokens[k] = Template.spanWordOpen}
        OuterWrapped(output) ==
          SelectSeq([i \in 1..Len(output) |->
                       IF i \in Opens(output) /\ Depth(output, i) = 0 THEN output[i + 1] ELSE ""],
                    LAMBDA w : w # "")
    IN /\ OuterWrapped(twice) = OuterWrapped(once)
       /\ \A k \in Opens(twice) : Depth(twice, k) = 0

\* C22: with the operations invoked through the controls of the user
\* interface only, at most one of start, sendInput, backtrackToTurn, endGame and
\* newGame is in progress at any time (no second request is in flight, and
\* newGame does not run while one is), and isLoading is true for as long as a
\* request is in flight.
C22_OneOperationAtATime ==
  /\ Len(inflight) <= 1
  /\ lastOp.op = "newGame" => inflight = <<>>
  /\ inflight # <<>> => isLoading

\* C23: game_over is terminal: from a GameState with game_over set, no step
\* of sendInput, backtrackToTurn or endGame leads to a GameState with game_over
\* unset.
C23_GameOverTerminal ==
  [][(/\ gameState # Null
      /\ gameState.game_over
      /\ gameState' # Null
      /\ lastOp'.op \in {"sendInput", "backtrackToTurn", "endGame"}) => gameState'.game_over]_vars

\* C24: after a successful sendInput no word stands twice in
\* vocabulary_learned, whatever list of vocabulary_words the reply carried.
C24_VocabularyLearnedIsSet ==
  SettledOk("sendInput") =>
    \A i, j \in 1..Len(gameState.vocabulary_learned) :
      i # j => gameState.vocabulary_learned[i] # gameState.vocabulary_learned[j]

\* C25: every step of sendInput or endGame that changes the GameState keeps
\* the history entries there were as a prefix of the new history and does not
\* lower turn; a successful sendInput appends exactly one GameTurn, whose
\* user_input is the trimmed input.
C25_HistoryAppendOnly ==
  [][(/\ lastOp'.op \in {"sendInput", "endGame"}
      /\ gameState # Null
      /\ gameState' # gameState) =>
        /\ gameState' # Null
        /\ Len(gameState'.history) >= Len(gameState.history)
        /\ SubSeq(gameState'.history, 1, Len(gameState.history)) = gameState.history
        /\ gameState'.turn >= gameState.turn
        /\ lastOp'.op = "sendInput" =>
             /\ Len(gameState'.history) = Len(gameState.history) + 1
             /\ gameState'.history[Len(gameState'.history)].user_input = Trim(lastOp'.req.input)]_vars

\* C26: once newGame has run there is no GameState and nothing is stored
\* under the game-state key until a start succeeds, also when the reply to a
\* request issued before newGame arrives in between.
C26_NewGameStaysNotStarted ==
  [][(/\ gameState = Null
      /\ lastOp'.op # "mount"
      /\ ~(lastOp'.op = "startGame" /\ lastOp'.phase = "settle" /\ lastOp'.api.ok)) =>
        (gameState' = Null /\ storage' = Null)]_vars

\* C27: within one session no more than MAX_BACKTRACK_COUNT backtracks are
\* applied, also when sendInput, backtrackToTurn and endGame calls overlap.
C27_BacktracksAppliedBounded == lastOp.backtracks <= MAX_BACKTRACK_COUNT

\* C28: when a sendInput is invoked before the reply to an earlier sendInput
\* has been applied and both succeed, the history holds one more GameTurn for
\* each of the two replies than it held when the first was invoked.
C28_OverlappingSendInputsBothKept ==
  [][(/\ lastOp'.op = "sendInput"
      /\ lastOp'.phase = "settle"
      /\ lastOp'.api.ok
      /\ lastOp.op = "sendInput"
      /\ lastOp.phase = "settle"
      /\ lastOp.api.ok
      /\ lastOp'.req.gs = lastOp.req.gs) =>
        Len(gameState'.history) = Len(lastOp.req.gs.history) + 2]_vars

\* C29: once handleSkipAnimation ran during the typewriter reveal, the
\* displayed text is the full ai_response of the current turn, and it stays so
\* until the text of a new turn arrives: no timer tick shortens it.
C29_SkipShowsFullText ==
  (gameWindow # Null /\ gameWindow.skipped) =>
    gameWindow.displayedText = gameWindow.ai_response.value

\* C30: the completionPercentage of getProgressStats() is within 0..100 after
\* any sequence of addLearnedWord calls made by sendInput, with the words the
\* backend reported, and by highlightVocabularyWords.
C30_CompletionPercentageInRange ==
  getProgressStats(progress).completionPercentage \in 0..100
====
